---- MODULE Spec2Model ----
(***************************************************************************)
(* Model of package gobuild (src/gobuild.go): the Build entry point, the   *)
(* argument tokenizer splitArgs/appendArg, the extension filter getExts,   *)
(* the path expander recursivePaths and the output naming getAppName.      *)
(* Strings are sequences of one-character strings, indexed from 1; the Go  *)
(* code indexes bytes from 0 and Slice converts between the two.           *)
(***************************************************************************)
EXTENDS Integers, Sequences, FiniteSets, TLC

VARIABLES
    dir,            \* Build's dir ...string: the list of root directories
    outputName,     \* Build's outputName argument
    exts,           \* Build's exts argument (comma separated string)
    recursive,      \* Build's recursive argument
    appArgs,        \* Build's appArgs argument (raw string)
    goexe,          \* value of the GOEXE environment variable
    goos,           \* platform the package is built for: fixes filepath.Separator
    getwdOK,        \* whether os.Getwd succeeds (filepath.Abs needs it for relative paths)
    tree,           \* the directories and files that exist on disk
    pc,             \* the line Build has reached
    err,            \* the error Build returned, or NoErr
    b,              \* the *builder Build constructs, if any
    logs,           \* events sent so far on the logs channel, in order
    paths,          \* result of recursivePaths inside Build
    w,              \* directories the watcher is subscribed to, if any
    sig,            \* capacity-1 rebuild signal slot
    task,           \* state of every build task started by go b.build()
    procs,          \* sequence numbers of the RunningProcess instances alive
    seq,            \* number of build attempts started so far
    events,         \* number of filesystem notifications delivered so far
    pending,        \* an accepted notification waits for the debounce window to close
    stopRequested,  \* an external stop request has been made
    ret             \* result of the last direct call of a pure function, if any

vars == <<dir, outputName, exts, recursive, appArgs, goexe, goos, getwdOK, tree,
          pc, err, b, logs, paths, w, sig, task, procs, seq, events,
          pending, stopRequested, ret>>

inputVars == <<dir, outputName, exts, recursive, appArgs, goexe, goos, getwdOK, tree>>
buildVars == <<pc, err, b, logs, paths, w>>
loopVars == <<sig, task, procs, seq, events, pending, stopRequested>>

NoErr == "nil"

\* no builder constructed yet, no watcher created yet, no function called yet
NoBuilder == [made |-> FALSE, exts |-> <<>>, appName |-> <<>>, wd |-> <<>>, appArgs |-> <<>>]
NoWatcher == [open |-> FALSE, watching |-> FALSE, paths |-> <<>>]
NoRet == [fn |-> "none", err |-> NoErr, val |-> <<>>]

\* the state in which Build has not been called and nothing runs
BuildIdle ==
    /\ pc = "start" /\ err = NoErr /\ b = NoBuilder /\ logs = <<>> /\ paths = <<>> /\ w = NoWatcher
    /\ sig = FALSE /\ task = <<>> /\ procs = {} /\ seq = 0 /\ events = 0 /\ pending = FALSE
    /\ stopRequested = FALSE

(***************************************************************************)
(* package strings                                                         *)
(***************************************************************************)
SP == " "
TAB == "\t"
EQ == "="
QT == "\""
NUL == "NUL"

\* unicode.IsSpace restricted to the characters of the model's alphabets
IsSpace(c) == c \in {SP, TAB}

\* Go's s[lo:hi] on 0-based byte offsets
Slice(s, lo, hi) == SubSeq(s, lo + 1, hi)

RECURSIVE TrimLeft(_)
TrimLeft(s) ==
    IF s # <<>> /\ IsSpace(Head(s)) THEN TrimLeft(Tail(s)) ELSE s

RECURSIVE TrimRight(_)
TrimRight(s) ==
    IF s # <<>> /\ IsSpace(s[Len(s)]) THEN TrimRight(SubSeq(s, 1, Len(s) - 1)) ELSE s

\* strings.TrimSpace
TrimSpace(s) == TrimRight(TrimLeft(s))

\* strings.Index(s, sub): 0-based offset of the first occurrence, or -1
Index(s, sub) ==
    LET hits == {i \in 0..(Len(s) - Len(sub)) : Slice(s, i, i + Len(sub)) = sub}
    IN  IF hits = {} THEN -1 ELSE CHOOSE i \in hits : \A j \in hits : i <= j

\* strings.IndexByte
IndexByte(s, c) == Index(s, <<c>>)

\* strings.HasSuffix
HasSuffix(s, suf) ==
    Len(s) >= Len(suf) /\ SubSeq(s, Len(s) - Len(suf) + 1, Len(s)) = suf

\* strings.HasPrefix
HasPrefix(s, pre) == Len(s) >= Len(pre) /\ SubSeq(s, 1, Len(pre)) = pre

\* strings.Split(s, c) for a one-byte separator: always at least one segment
RECURSIVE Split(_, _)
Split(s, c) ==
    LET i == IndexByte(s, c)
    IN  IF i < 0 THEN <<s>>
        ELSE <<Slice(s, 0, i)>> \o Split(Slice(s, i + 1, Len(s)), c)

\* F applied to the value of e, with e evaluated once
Call(F(_), e) == CHOOSE r \in {F(x) : x \in {e}} : TRUE

\* all strings over an alphabet up to a length
Strings(alphabet, n) == UNION {[1..k -> alphabet] : k \in 0..n}

(***************************************************************************)
(* splitArgs and appendArg                                                 *)
(***************************************************************************)
appendArgNoTrim(args, arg) ==
    IF arg = <<>> THEN args ELSE Append(args, arg)

appendArg(args, arg) ==
    LET t == TrimSpace(arg)
    IN  IF t = <<>> THEN args ELSE Append(args, t)

\* case ' ' of the switch; st = [ret, state, start]
caseSpace(args, index, st) ==
    IF st.state = QT THEN st
    ELSE IF st.state # SP
         THEN [ret |-> appendArg(st.ret, Slice(args, st.start, index)),
               state |-> SP, start |-> index + 1]
         ELSE [st EXCEPT !.start = index + 1]

caseEqualNoQuoteCheck(args, index, st) ==
    [ret |-> appendArg(st.ret, Slice(args, st.start, index)),
     state |-> NUL, start |-> index + 1]

\* case '=' of the switch: state is set to '=' and then to 0
caseEqual(args, index, st) ==
    IF st.state = QT THEN st
    ELSE [ret |-> IF st.state # EQ
                  THEN appendArg(st.ret, Slice(args, st.start, index))
                  ELSE st.ret,
          state |-> NUL, start |-> index + 1]

\* case '"' of the switch
caseQuote(args, index, st) ==
    IF st.state = QT
    THEN [ret |-> appendArg(st.ret, Slice(args, st.start, index)),
          state |-> NUL, start |-> index + 1]
    ELSE [ret |-> IF st.start # index
                  THEN appendArg(st.ret, Slice(args, st.start, index))
                  ELSE st.ret,
          state |-> QT, start |-> index + 1]

\* default case of the switch
caseDefault(args, index, st) ==
    IF st.state = SP THEN [st EXCEPT !.state = NUL, !.start = index] ELSE st

\* one iteration of the for loop
splitStep(args, index, st) ==
    LET c == args[index + 1]
    IN  CASE c = SP -> caseSpace(args, index, st)
          [] c = EQ -> caseEqual(args, index, st)
          [] c = QT -> caseQuote(args, index, st)
          [] OTHER -> caseDefault(args, index, st)

RECURSIVE splitLoop(_, _, _)
splitLoop(args, index, st) ==
    IF index < Len(args)
    THEN Call(LAMBDA s : splitLoop(args, index + 1, s), splitStep(args, index, st))
    ELSE st

splitArgs(args) ==
    LET st == splitLoop(args, 0, [ret |-> <<>>, state |-> NUL, start |-> 0])
    IN  IF st.start < Len(args)
        THEN appendArg(st.ret, Slice(args, st.start, Len(args)))
        ELSE st.ret

(***************************************************************************)
(* getExts                                                                 *)
(***************************************************************************)
DOT == "."
COMMA == ","
STAR == "*"

normExtAlwaysDot(ext) ==
    LET t == TrimSpace(ext)
    IN  IF Len(t) = 0 THEN <<>> ELSE <<(<<DOT>> \o t)>>

\* body of the loop of getExts: the elements one segment adds to ret
normExt(ext) ==
    LET t == TrimSpace(ext)
    IN  IF Len(t) = 0 THEN <<>>
        ELSE IF t[1] # DOT THEN <<(<<DOT>> \o t)>> ELSE <<t>>

RECURSIVE getExtsLoop(_)
getExtsLoop(segs) ==
    IF segs = <<>> THEN <<>> ELSE normExt(Head(segs)) \o getExtsLoop(Tail(segs))

getExts(extString) == getExtsLoop(Split(extString, COMMA))

(***************************************************************************)
(* package path/filepath and os, on paths that are lexically clean         *)
(***************************************************************************)
SLASH == "/"
BACKSLASH == "\\"

\* filepath.Separator, fixed by the platform the package is built for
Separator == IF goos = "windows" THEN BACKSLASH ELSE SLASH

\* os.IsPathSeparator
IsPathSeparator(c) == c = Separator \/ (goos = "windows" /\ c = SLASH)

\* filepath.FromSlash, the only rewriting Clean does to a clean path
FromSlash(p) == [i \in 1..Len(p) |-> IF p[i] = SLASH THEN Separator ELSE p[i]]

\* length of filepath.VolumeName: a drive letter and a colon on windows
volumeLen(p) ==
    IF goos = "windows" /\ Len(p) >= 2 /\ p[2] = ":" THEN 2 ELSE 0

\* filepath.IsAbs
IsAbs(p) ==
    LET v == volumeLen(p)
    IN  IF goos = "windows"
        THEN v = 2 /\ Len(p) > 2 /\ IsPathSeparator(p[3])
        ELSE HasPrefix(p, <<SLASH>>)

\* the process's working directory, as os.Getwd reports it
Cwd == IF goos = "windows" THEN <<"c", ":", BACKSLASH, "w">> ELSE <<SLASH, "w">>

\* filepath.Join of two elements: empty elements are ignored, "." is elided
Join(a, c) ==
    CASE c = <<>> -> FromSlash(a)
      [] a = <<>> \/ a = <<DOT>> -> FromSlash(c)
      [] a # <<>> /\ IsPathSeparator(a[Len(a)]) -> FromSlash(a \o c)
      [] OTHER -> FromSlash(a \o <<Separator>> \o c)

\* offset just after the last path separator of p, 0 if there is none
lastSep(p) ==
    LET at == {i \in 1..Len(p) : IsPathSeparator(p[i])}
    IN  IF at = {} THEN 0 ELSE CHOOSE i \in at : \A j \in at : j <= i

\* filepath.Base of a path without trailing separators
Base(p) ==
    LET q == SubSeq(p, volumeLen(p) + 1, Len(p))
    IN  IF q = <<>> THEN <<DOT>>
        ELSE IF lastSep(q) = Len(q) THEN <<Separator>>
        ELSE SubSeq(q, lastSep(q) + 1, Len(q))

\* filepath.Dir of a clean path
Dir(p) ==
    LET v == volumeLen(p)
        q == SubSeq(p, v + 1, Len(p))
        i == lastSep(q)
    IN  IF i = 0 THEN SubSeq(p, 1, v) \o <<DOT>>
        ELSE IF i = 1 THEN SubSeq(p, 1, v + 1)
        ELSE SubSeq(p, 1, v + i - 1)

\* filepath.Abs: fails only when the path is relative and os.Getwd fails
Abs(p) ==
    IF IsAbs(p) THEN [err |-> NoErr, val |-> FromSlash(p)]
    ELSE IF getwdOK THEN [err |-> NoErr, val |-> Join(Cwd, p)]
    ELSE [err |-> "getwd", val |-> <<>>]

(***************************************************************************)
(* getAppName                                                              *)
(***************************************************************************)
\* outputName after the defaulting to the base name and the GOEXE suffix
suffixedName(name, wd) ==
    LET n == IF name = <<>> THEN Base(wd) ELSE name
    IN  IF goexe # <<>> /\ ~HasSuffix(n, goexe) THEN n \o goexe ELSE n

\* the condition under which wd is put in front of the name
needsWd(name) ==
    IndexByte(name, SLASH) < 0 \/ IndexByte(name, Separator) < 0

getAppName(name, wd) ==
    Call(LAMBDA n : Call(LAMBDA r : IF r.err # NoErr THEN [err |-> r.err, val |-> <<>>] ELSE r,
                         Abs(IF needsWd(n) THEN Join(wd, n) ELSE n)),
         suffixedName(name, wd))

(***************************************************************************)
(* recursivePaths and filepath.Walk                                        *)
(***************************************************************************)
NameA == <<"a">>
NameDotG == <<DOT, "g">>
NameF == <<"f">>

\* names a directory may hold, in the byte order ioutil's readDirNames sorts them
NameOrder == <<NameDotG, NameA, NameF>>

\* the absolute path the operating system resolves a path to
Resolve(p) ==
    IF IsAbs(p) THEN p ELSE IF p = <<DOT>> THEN Cwd ELSE Join(Cwd, p)

\* os.Lstat succeeds
Exists(p) == Resolve(p) \in tree.dirs \cup tree.files

\* os.FileInfo.IsDir
IsDir(p) == Resolve(p) \in tree.dirs

\* the walk function of recursivePaths: the paths one visit adds to ret
walkFn(path) ==
    IF IsDir(path) /\ Index(path, <<SLASH, DOT>>) < 0 THEN <<path>> ELSE <<>>

RECURSIVE walkNames(_, _)
\* filepath.walk: the visit of path, then of its entries in sorted order
RECURSIVE walk(_)
walk(path) ==
    walkFn(path) \o (IF IsDir(path) THEN walkNames(path, NameOrder) ELSE <<>>)

walkNames(path, names) ==
    IF names = <<>> THEN <<>>
    ELSE Call(LAMBDA p : IF Exists(p) THEN walk(p) ELSE <<>>, Join(path, Head(names)))
         \o walkNames(path, Tail(names))

RECURSIVE walkRoots(_)
\* the loop over paths: the first root that cannot be read aborts the expansion
walkRoots(roots) ==
    IF roots = <<>> THEN [err |-> NoErr, val |-> <<>>]
    ELSE IF ~Exists(Head(roots)) THEN [err |-> "walk", val |-> <<>>]
    ELSE LET rest == walkRoots(Tail(roots))
         IN  IF rest.err # NoErr THEN rest
             ELSE [err |-> NoErr, val |-> walk(Head(roots)) \o rest.val]

recursivePaths(rec, roots) ==
    IF ~rec THEN [err |-> NoErr, val |-> roots] ELSE walkRoots(roots)

(***************************************************************************)
(* Build                                                                   *)
(***************************************************************************)
LogTypeInfo == "info"
LogTypeWarn == "warn"
LogTypeError == "error"
LogTypeSuccess == "success"

Log(type, message) == [Type |-> type, Message |-> message]

Return(e) == pc' = "returned" /\ err' = e

\* len(dir) < 1
CheckDir ==
    /\ pc = "start"
    /\ IF Len(dir) < 1
       THEN Return("nodir")
       ELSE pc' = "abs" /\ UNCHANGED err
    /\ UNCHANGED <<inputVars, b, logs, paths, w, loopVars, ret>>

\* wd, err := filepath.Abs(dir[0]); dir[0] = wd
AbsWd ==
    /\ pc = "abs"
    /\ \E r \in {Abs(dir[1])} :
           IF r.err # NoErr
           THEN Return(r.err) /\ UNCHANGED dir
           ELSE pc' = "builder" /\ dir' = [dir EXCEPT ![1] = r.val] /\ UNCHANGED err
    /\ UNCHANGED <<outputName, exts, recursive, appArgs, goexe, goos, getwdOK, tree,
                   b, logs, paths, w, loopVars, ret>>

\* appName, err := getAppName(outputName, wd); b := &builder{...}
NewBuilder ==
    /\ pc = "builder"
    /\ \E r \in {getAppName(outputName, dir[1])} :
           IF r.err # NoErr
           THEN Return(r.err) /\ UNCHANGED b
           ELSE /\ pc' = "logArgs"
                /\ b' = [made |-> TRUE, exts |-> getExts(exts), appName |-> r.val,
                         wd |-> Dir(r.val), appArgs |-> splitArgs(appArgs)]
                /\ UNCHANGED err
    /\ UNCHANGED <<inputVars, logs, paths, w, loopVars, ret>>

\* the argument summary sent on logs
LogArgs ==
    /\ pc = "logArgs"
    /\ logs' = Append(logs, Log(LogTypeInfo, "args"))
    /\ pc' = "logExts"
    /\ UNCHANGED <<inputVars, err, b, paths, w, loopVars, ret>>

LogExtsEmptyIsError ==
    /\ pc = "logExts"
    /\ IF Len(b.exts) = 0
       THEN /\ logs' = Append(logs, Log(LogTypeError, "emptyExts"))
            /\ Return("noexts")
       ELSE /\ logs' = Append(logs, Log(LogTypeInfo, "exts"))
            /\ pc' = "logAppName" /\ UNCHANGED err
    /\ UNCHANGED <<inputVars, b, paths, w, loopVars, ret>>

\* the switch on len(b.exts): a warning for the empty set, the summary otherwise
LogExts ==
    /\ pc = "logExts"
    /\ logs' = Append(logs, IF Len(b.exts) = 0
                            THEN Log(LogTypeWarn, "emptyExts")
                            ELSE Log(LogTypeInfo, "exts"))
    /\ pc' = "logAppName"
    /\ UNCHANGED <<inputVars, err, b, paths, w, loopVars, ret>>

\* the output path sent on logs
LogAppName ==
    /\ pc = "logAppName"
    /\ logs' = Append(logs, Log(LogTypeInfo, "appName"))
    /\ pc' = "paths"
    /\ UNCHANGED <<inputVars, err, b, paths, w, loopVars, ret>>

ExpandPathsIgnoreError ==
    /\ pc = "paths"
    /\ paths' = recursivePaths(recursive, dir).val
    /\ pc' = "initWatcher"
    /\ UNCHANGED <<inputVars, err, b, logs, w, loopVars, ret>>

\* paths, err := recursivePaths(recursive, dir)
ExpandPaths ==
    /\ pc = "paths"
    /\ \E r \in {recursivePaths(recursive, dir)} :
           IF r.err # NoErr
           THEN Return(r.err) /\ UNCHANGED paths
           ELSE pc' = "initWatcher" /\ paths' = r.val /\ UNCHANGED err
    /\ UNCHANGED <<inputVars, b, logs, w, loopVars, ret>>

\* b.initWatcher(paths): subscribes to every path, fails if one is no directory
initWatcher(ps) ==
    IF \A i \in DOMAIN ps : IsDir(ps[i])
    THEN [err |-> NoErr, val |-> [open |-> TRUE, watching |-> FALSE, paths |-> ps]]
    ELSE [err |-> "watcher", val |-> NoWatcher]

\* w, err := b.initWatcher(paths)
InitWatcher ==
    /\ pc = "initWatcher"
    /\ \E r \in {initWatcher(paths)} :
           IF r.err # NoErr
           THEN Return(r.err) /\ UNCHANGED w
           ELSE pc' = "watch" /\ w' = r.val /\ UNCHANGED err
    /\ UNCHANGED <<inputVars, b, logs, paths, loopVars, ret>>

\* b.watch(w): starts the task that receives the notifications
Watch ==
    /\ pc = "watch"
    /\ w' = [w EXCEPT !.watching = TRUE]
    /\ pc' = "goBuild"
    /\ UNCHANGED <<inputVars, err, b, logs, paths, loopVars, ret>>

\* a build task as go b.build() starts it: compiling, as build attempt n
NewTask(n) == [state |-> "Building", attempt |-> n]

GoBuildTwice ==
    /\ pc = "goBuild"
    /\ task' = task \o <<NewTask(seq + 1), NewTask(seq + 2)>>
    /\ seq' = seq + 2
    /\ pc' = "wait"
    /\ UNCHANGED <<inputVars, err, b, logs, paths, w, sig, procs, events, pending,
                   stopRequested, ret>>

\* go b.build(): the startup build runs beside the watcher
GoBuild ==
    /\ pc = "goBuild"
    /\ task' = Append(task, NewTask(seq + 1))
    /\ seq' = seq + 1
    /\ pc' = "wait"
    /\ UNCHANGED <<inputVars, err, b, logs, paths, w, sig, procs, events, pending,
                   stopRequested, ret>>

WaitUntilStopped ==
    /\ \/ pc = "wait" /\ pc' = "blocked"
       \/ pc = "blocked" /\ stopRequested /\ pc' = "returned"
    /\ UNCHANGED <<inputVars, err, b, logs, paths, w, loopVars, ret>>

\* <-make(chan bool): a receive on a channel nothing else holds never completes
Wait ==
    /\ pc = "wait"
    /\ pc' = "blocked"
    /\ UNCHANGED <<inputVars, err, b, logs, paths, w, loopVars, ret>>

BuildStep ==
    \/ CheckDir
    \/ AbsWd
    \/ NewBuilder
    \/ LogArgs
    \/ LogExts
    \/ LogAppName
    \/ ExpandPaths
    \/ InitWatcher
    \/ Watch
    \/ GoBuild
    \/ Wait

(***************************************************************************)
(* The watch coordinator and the build task that Build starts              *)
(***************************************************************************)
MaxEvents == 2
MaxBuilds == 2

FileG == <<"m", DOT, "g">>
FileM == <<"r", DOT, "m">>
ChangedFiles == {FileG, FileM}

\* the extension of a file name, from its last "."
Ext(f) ==
    LET at == {i \in DOMAIN f : f[i] = DOT}
    IN  IF at = {} THEN <<>>
        ELSE SubSeq(f, CHOOSE i \in at : \A j \in at : j <= i, Len(f))

\* the filter set holds the literal * entry
IsWildcard(set) == \E i \in DOMAIN set : set[i] = <<STAR>>

\* the per-event check: the wildcard short-circuits the suffix check, and the
\* empty set watches no file
Accepts(set, f) == IsWildcard(set) \/ \E i \in DOMAIN set : set[i] = Ext(f)

\* a change notification for file f reaches the watch coordinator
Notify(f) ==
    /\ w.watching /\ ~stopRequested
    /\ events < MaxEvents
    /\ events' = events + 1
    /\ pending' = (pending \/ Accepts(b.exts, f))
    /\ UNCHANGED <<inputVars, buildVars, sig, task, procs, seq, stopRequested, ret>>

\* the coalescing window closes: one signal, replacing an unconsumed one
Debounce ==
    /\ pending
    /\ pending' = FALSE
    /\ sig' = TRUE
    /\ UNCHANGED <<inputVars, buildVars, task, procs, seq, events, stopRequested, ret>>

Building(t) == task[t].state = "Building"

\* a task that is not compiling and not replacing the process takes the signal
TakeSignal(t) ==
    /\ task[t].state \in {"Running", "BuildFailed"}
    /\ \A u \in DOMAIN task : ~Building(u)
    /\ sig /\ ~stopRequested
    /\ seq < MaxBuilds
    /\ sig' = FALSE
    /\ seq' = seq + 1
    /\ task' = [task EXCEPT ![t] = NewTask(seq + 1)]
    /\ UNCHANGED <<inputVars, buildVars, procs, events, pending, stopRequested, ret>>

\* the compiler exits non-zero or cannot be spawned: the process is left alone
BuildFails(t) ==
    /\ Building(t)
    /\ task' = [task EXCEPT ![t].state = "BuildFailed"]
    /\ logs' = Append(logs, Log(LogTypeError, "buildFailed"))
    /\ UNCHANGED <<inputVars, pc, err, b, paths, w, sig, procs, seq, events, pending,
                   stopRequested, ret>>

\* the compiler exits 0: the replacement of the process begins
BuildSucceeds(t) ==
    /\ Building(t)
    /\ task' = [task EXCEPT ![t].state = "Replacing"]
    /\ UNCHANGED <<inputVars, buildVars, sig, procs, seq, events, pending,
                   stopRequested, ret>>

\* the previous process is terminated, gracefully or by the forced kill
Terminate(t) ==
    /\ task[t].state = "Replacing"
    /\ procs # {}
    /\ procs' = {}
    /\ logs' = Append(logs, Log(LogTypeInfo, "stop"))
    /\ UNCHANGED <<inputVars, pc, err, b, paths, w, sig, task, seq, events, pending,
                   stopRequested, ret>>

\* the previous process survives the forced kill, or the new one cannot be
\* started: the failure is logged and no process is started
ReplaceFails(t) ==
    /\ task[t].state = "Replacing"
    /\ task' = [task EXCEPT ![t].state = "BuildFailed"]
    /\ logs' = Append(logs, Log(LogTypeError, "process"))
    /\ UNCHANGED <<inputVars, pc, err, b, paths, w, sig, procs, seq, events, pending,
                   stopRequested, ret>>

\* the new binary is started once no previous process is alive
StartProcess(t) ==
    /\ task[t].state = "Replacing"
    /\ procs = {} /\ ~stopRequested
    /\ procs' = {task[t].attempt}
    /\ task' = [task EXCEPT ![t].state = "Running"]
    /\ logs' = Append(logs, Log(LogTypeSuccess, "start"))
    /\ UNCHANGED <<inputVars, pc, err, b, paths, w, sig, seq, events, pending,
                   stopRequested, ret>>

\* the running program exits on its own
ProcessExits ==
    /\ procs # {}
    /\ procs' = {}
    /\ UNCHANGED <<inputVars, buildVars, sig, task, seq, events, pending,
                   stopRequested, ret>>

\* an external stop request (an interrupt) arrives while Build is running
StopRequest ==
    /\ pc \notin {"start", "returned"}
    /\ ~stopRequested
    /\ stopRequested' = TRUE
    /\ UNCHANGED <<inputVars, buildVars, sig, task, procs, seq, events, pending, ret>>

\* after a stop request the task aborts the compiler, terminates the process,
\* starts no replacement and logs a final status
Shutdown(t) ==
    /\ stopRequested
    /\ task[t].state # "Stopped"
    /\ task' = [task EXCEPT ![t].state = "Stopped"]
    /\ procs' = {}
    /\ logs' = Append(logs, Log(LogTypeInfo, "stopped"))
    /\ UNCHANGED <<inputVars, pc, err, b, paths, w, sig, seq, events, pending,
                   stopRequested, ret>>

TaskStep ==
    \E t \in DOMAIN task :
        \/ TakeSignal(t)
        \/ BuildFails(t)
        \/ BuildSucceeds(t)
        \/ Terminate(t)
        \/ ReplaceFails(t)
        \/ StartProcess(t)
        \/ Shutdown(t)

WatchStep == Debounce \/ \E f \in ChangedFiles : Notify(f)

(***************************************************************************)
(* Build called on its arguments                                           *)
(***************************************************************************)
BuildTrees ==
    {[dirs |-> {<<SLASH, "w">>, <<SLASH, "w", SLASH, "a">>,
                <<SLASH, "w", SLASH, "a", SLASH, DOT, "g">>}, files |-> {}],
     [dirs |-> {<<SLASH, "w">>}, files |-> {}]}

BuildDirs ==
    {<<>>, <<NameA>>, <<<<SLASH, "w", SLASH, "a">>>>, <<NameA, <<DOT>>>>}

BuildExts ==
    {<<>>, <<STAR>>, <<"g">>, <<DOT, "g", COMMA, SP, STAR>>}

BuildOutputNames == {<<>>, <<"b", SLASH, "a">>}

BuildAppArgs == {<<"a", EQ, QT, "a", SP, "a", QT>>}

Init ==
    /\ goos = "linux"
    /\ getwdOK \in BOOLEAN
    /\ tree \in BuildTrees
    /\ dir \in BuildDirs
    /\ exts \in BuildExts
    /\ outputName \in BuildOutputNames
    /\ appArgs \in BuildAppArgs
    /\ recursive \in BOOLEAN
    /\ goexe = <<>>
    /\ BuildIdle /\ ret = NoRet

Next ==
    \/ CheckDir
    \/ AbsWd
    \/ NewBuilder
    \/ LogArgs
    \/ LogExts
    \/ LogAppName
    \/ ExpandPaths
    \/ InitWatcher
    \/ Watch
    \/ GoBuild
    \/ Wait
    \/ \E f \in ChangedFiles : Notify(f)
    \/ Debounce
    \/ \E t \in DOMAIN task : TakeSignal(t)
    \/ \E t \in DOMAIN task : BuildFails(t)
    \/ \E t \in DOMAIN task : BuildSucceeds(t)
    \/ \E t \in DOMAIN task : Terminate(t)
    \/ \E t \in DOMAIN task : ReplaceFails(t)
    \/ \E t \in DOMAIN task : StartProcess(t)
    \/ \E t \in DOMAIN task : Shutdown(t)
    \/ ProcessExits
    \/ StopRequest

Spec == Init /\ [][Next]_vars

\* Build called on roots that exist, so that it reaches its wait
InitStarted ==
    /\ goos = "linux"
    /\ getwdOK = TRUE
    /\ tree = [dirs |-> {<<SLASH, "w">>, <<SLASH, "w", SLASH, "a">>,
                         <<SLASH, "w", SLASH, "a", SLASH, DOT, "g">>}, files |-> {}]
    /\ dir \in {<<NameA>>, <<NameA, <<DOT>>>>}
    /\ exts \in BuildExts
    /\ outputName = <<>>
    /\ appArgs \in BuildAppArgs
    /\ recursive \in BOOLEAN
    /\ goexe = <<>>
    /\ BuildIdle /\ ret = NoRet

\* every goroutine that can take a step eventually takes one
FairSpec ==
    InitStarted /\ [][Next]_vars /\ WF_vars(BuildStep) /\ WF_vars(WatchStep) /\ WF_vars(TaskStep)

(***************************************************************************)
(* Direct calls of the pure functions, on inputs drawn from bounded sets   *)
(***************************************************************************)
MaxArgLen == 5
MaxExtLen == 5
MaxDepth == 2
MaxRoots == 2

ArgAlphabet == {SP, TAB, EQ, QT, "a"}
ExtAlphabet == {COMMA, SP, DOT, STAR, "g"}

\* the directories below the working directory down to a depth, and the files
RECURSIVE DirsBelow(_, _)
DirsBelow(p, d) ==
    IF d = 0 THEN {}
    ELSE UNION {{Join(p, n)} \cup DirsBelow(Join(p, n), d - 1) : n \in {NameA, NameDotG}}

Parent(p) == SubSeq(p, 1, lastSep(p) - 1)

\* every file system of that shape: a directory exists only inside a directory
Trees ==
    LET cand == DirsBelow(<<SLASH, "w">>, MaxDepth)
    IN  {[dirs |-> ds \cup {<<SLASH, "w">>},
          files |-> {Join(d, NameF) : d \in fs}] :
            <<ds, fs>> \in {x \in (SUBSET cand) \X (SUBSET {<<SLASH, "w">>, <<SLASH, "w", SLASH, "a">>}) :
                              /\ \A d \in x[1] : Parent(d) \in x[1] \cup {<<SLASH, "w">>}
                              /\ \A d \in x[2] : d \in x[1] \cup {<<SLASH, "w">>}}}

RootChoices ==
    {<<DOT>>, NameA, NameDotG, <<SLASH, "w">>, <<SLASH, "w", SLASH, "a">>}

RootLists == UNION {[1..k -> RootChoices] : k \in 1..MaxRoots}

DefaultTree ==
    [dirs |-> {<<SLASH, "w">>, <<SLASH, "w", SLASH, "a">>}, files |-> {}]

OutputNames ==
    {<<>>, <<"a">>, <<"a", DOT, "e">>, <<"b", SLASH, "a">>, <<"b", SLASH, "a", DOT, "e">>,
     <<"b", BACKSLASH, "a">>, <<"b", BACKSLASH, "a", DOT, "e">>,
     <<"b", SLASH, "b", BACKSLASH, "a">>, <<SLASH, "o", SLASH, "a">>,
     <<"c", ":", BACKSLASH, "o", BACKSLASH, "a">>}

GoExes == {<<>>, <<DOT, "e">>}

InitSplitArgs ==
    /\ goos = "linux" /\ getwdOK = TRUE
    /\ appArgs \in Strings(ArgAlphabet, MaxArgLen)
    /\ dir = <<>> /\ outputName = <<>> /\ exts = <<>> /\ recursive = FALSE
    /\ goexe = <<>> /\ tree = DefaultTree
    /\ BuildIdle /\ ret = NoRet

CallSplitArgs ==
    /\ ret = NoRet
    /\ ret' = [fn |-> "splitArgs", err |-> NoErr, val |-> splitArgs(appArgs)]
    /\ UNCHANGED <<inputVars, buildVars, loopVars>>

SpecSplitArgs == InitSplitArgs /\ [][CallSplitArgs]_vars

InitGetExts ==
    /\ goos = "linux" /\ getwdOK = TRUE
    /\ exts \in Strings(ExtAlphabet, MaxExtLen)
    /\ dir = <<>> /\ outputName = <<>> /\ appArgs = <<>> /\ recursive = FALSE
    /\ goexe = <<>> /\ tree = DefaultTree
    /\ BuildIdle /\ ret = NoRet

CallGetExts ==
    /\ ret = NoRet
    /\ ret' = [fn |-> "getExts", err |-> NoErr, val |-> getExts(exts)]
    /\ UNCHANGED <<inputVars, buildVars, loopVars>>

SpecGetExts == InitGetExts /\ [][CallGetExts]_vars

InitRecursivePaths ==
    /\ goos = "linux" /\ getwdOK = TRUE
    /\ tree \in Trees
    /\ dir \in RootLists
    /\ recursive \in BOOLEAN
    /\ outputName = <<>> /\ appArgs = <<>> /\ exts = <<>>
    /\ goexe = <<>>
    /\ BuildIdle /\ ret = NoRet

CallRecursivePaths ==
    /\ ret = NoRet
    /\ \E r \in {recursivePaths(recursive, dir)} :
           ret' = [fn |-> "recursivePaths", err |-> r.err, val |-> r.val]
    /\ UNCHANGED <<inputVars, buildVars, loopVars>>

SpecRecursivePaths == InitRecursivePaths /\ [][CallRecursivePaths]_vars

\* getAppName is called with wd, the absolute path of the primary root
InitGetAppName ==
    /\ goos \in {"linux", "windows"}
    /\ outputName \in OutputNames
    /\ goexe \in GoExes
    /\ dir \in {<<NameA>>, <<<<"p">>>>}
    /\ getwdOK = TRUE /\ tree = DefaultTree
    /\ appArgs = <<>> /\ exts = <<>> /\ recursive = FALSE
    /\ BuildIdle /\ ret = NoRet

CallGetAppName ==
    /\ ret = NoRet
    /\ \E r \in {getAppName(outputName, Abs(dir[1]).val)} :
           ret' = [fn |-> "getAppName", err |-> r.err, val |-> r.val]
    /\ UNCHANGED <<inputVars, buildVars, loopVars>>

SpecGetAppName == InitGetAppName /\ [][CallGetAppName]_vars

(***************************************************************************)
(* Properties of the pure functions                                        *)
(***************************************************************************)
Range(f) == {f[i] : i \in DOMAIN f}

RECURSIVE Flatten(_)
Flatten(ss) == IF ss = <<>> THEN <<>> ELSE Head(ss) \o Flatten(Tail(ss))

\* C4: every token splitArgs returns is non-empty and neither starts nor ends
\* with whitespace, whatever mix of spaces, tabs, = and " the input holds.
C4_TokensTrimmedNonEmpty ==
    ret.fn = "splitArgs" =>
        \A i \in DOMAIN ret.val :
            /\ ret.val[i] # <<>>
            /\ ~IsSpace(ret.val[i][1])
            /\ ~IsSpace(ret.val[i][Len(ret.val[i])])

\* the call returned at least two tokens from an input with blanks around them
C4_Witness ==
    /\ ret.fn = "splitArgs"
    /\ Len(ret.val) >= 2
    /\ IsSpace(appArgs[1])
    /\ \E i \in DOMAIN appArgs : appArgs[i] = QT

\* the tokens of a stretch of input outside quotes: cut at every space and
\* every =, each piece trimmed, the pieces that trim to empty left out
UnquotedTokens(u) ==
    LET cut == [i \in 1..Len(u) |-> IF u[i] = EQ THEN SP ELSE u[i]]
        pieces == Split(cut, SP)
    IN  Flatten([i \in 1..Len(pieces) |->
                    IF TrimSpace(pieces[i]) = <<>> THEN <<>> ELSE <<TrimSpace(pieces[i])>>])

\* the token of a quoted span: its content trimmed, or none
QuotedToken(q) == IF TrimSpace(q) = <<>> THEN <<>> ELSE <<TrimSpace(q)>>

\* the input cut at its quotes: the odd stretches are outside quotes, the even
\* ones are quoted spans (the last one up to the end of input if unterminated)
SpanTokens(s) ==
    LET spans == Split(s, QT)
    IN  Flatten([i \in 1..Len(spans) |->
                    IF i % 2 = 1 THEN UnquotedTokens(spans[i]) ELSE QuotedToken(spans[i])])

\* C5: splitArgs returns, in order, one token per quoted span (its trimmed
\* content, none if that is empty; the span ends at the next " or at the end
\* of input) and, outside quoted spans, the trimmed non-empty pieces between
\* spaces and = signs; text pending before an opening quote is its own token.
C5_QuotedSpansAreUnits ==
    ret.fn = "splitArgs" => ret.val = SpanTokens(appArgs)

\* a quoted span holding a space or an = that yields one token holding it,
\* after unquoted text that was flushed on its own
C5_Witness ==
    /\ ret.fn = "splitArgs"
    /\ Len(ret.val) = 2
    /\ appArgs[1] = "a" /\ appArgs[2] = QT
    /\ \E i \in DOMAIN ret.val[2] : ret.val[2][i] \in {SP, EQ}

\* the segments of the extension string that are non-empty after trimming
KeptSegments(extString) ==
    LET segs == Split(extString, COMMA)
    IN  SelectSeq([i \in 1..Len(segs) |-> TrimSpace(segs[i])], LAMBDA t : t # <<>>)

\* C6: getExts returns, in input order, one suffix per comma-separated segment
\* that is non-empty after trimming: the trimmed segment if it starts with ".",
\* otherwise "." followed by it; every element starts with "." and the empty
\* input gives the empty list.
C6_GetExtsNormalises ==
    ret.fn = "getExts" =>
        LET kept == KeptSegments(exts)
        IN  /\ Len(ret.val) = Len(kept)
            /\ \A i \in DOMAIN ret.val :
                  /\ ret.val[i][1] = DOT
                  /\ kept[i][1] = DOT => ret.val[i] = kept[i]
                  /\ kept[i][1] # DOT => ret.val[i] = <<DOT>> \o kept[i]
            /\ exts = <<>> => ret.val = <<>>

\* two suffixes returned, one from a dotted segment and one from a bare one,
\* with an empty segment dropped
C6_Witness ==
    /\ ret.fn = "getExts"
    /\ exts = <<DOT, "g", COMMA, COMMA, "g">>
    /\ ret.val = << <<DOT, "g">>, <<DOT, "g">> >>

\* a path has a hidden segment: a name that starts with "." ("." itself, the
\* current directory, is not a name)
Hidden(p) ==
    \E seg \in Range(Split(p, SLASH)) : Len(seg) > 1 /\ seg[1] = DOT

\* the path under which the walk of root reports the directory d of its subtree
WalkPath(root, d) ==
    IF d = Resolve(root) THEN root
    ELSE Join(root, SubSeq(d, Len(Resolve(root)) + 2, Len(d)))

\* the directories of the subtrees of the roots that are not hidden
VisibleDirs(roots) ==
    {WalkPath(r, d) : <<r, d>> \in
        {x \in Range(roots) \X tree.dirs :
            /\ x[2] = Resolve(x[1]) \/ HasPrefix(x[2], Resolve(x[1]) \o <<SLASH>>)
            /\ ~Hidden(WalkPath(x[1], x[2]))}}

\* C9: with recursive=true recursivePaths returns exactly the directories of
\* the roots' subtrees (roots included) whose path has no segment starting
\* with "."; with recursive=false it returns the roots unchanged.
C9_HiddenDirsExcluded ==
    (ret.fn = "recursivePaths" /\ ret.err = NoErr) =>
        IF recursive THEN Range(ret.val) = VisibleDirs(dir) ELSE ret.val = dir

\* the name has a path separator of the platform
HasSeparator(name) == \E i \in DOMAIN name : IsPathSeparator(name[i])

\* C10: getAppName puts the primary root in front of the name (defaulted and
\* suffixed) exactly when the name has no path separator; a name with a path
\* separator is only made absolute; the result ends with the executable
\* suffix when one is configured.
C10_RootPrefixOnlyWithoutSeparator ==
    (ret.fn = "getAppName" /\ ret.err = NoErr) =>
        LET wd == Abs(dir[1]).val
            n == suffixedName(outputName, wd)
        IN  /\ ~HasSeparator(n) => ret.val = Join(wd, n)
            /\ HasSeparator(n) => ret.val = Abs(n).val
            /\ goexe # <<>> => HasSuffix(ret.val, goexe)

(***************************************************************************)
(* Properties of Build and of the tasks it starts                          *)
(***************************************************************************)
Compiling == {t \in DOMAIN task : Building(t)}

FailsAtStartup ==
    \/ Len(dir) = 0
    \/ Abs(dir[1]).err # NoErr
    \/ recursivePaths(recursive, dir).err # NoErr

\* C2: called with no root, or with a primary root that cannot be made
\* absolute, or with roots whose expansion fails, Build never subscribes a
\* watcher nor starts a build task, and when it has returned it returned an error.
C2_FailsBeforeWatching ==
    FailsAtStartup =>
        /\ ~w.open /\ ~w.watching
        /\ task = <<>>
        /\ pc \notin {"initWatcher", "watch", "goBuild", "wait", "blocked"}
        /\ pc = "returned" => err # NoErr

\* Build returned the error of the path expansion, after its three log events
C2_Witness ==
    /\ pc = "returned" /\ err = "walk"
    /\ Len(logs) = 3
    /\ ~w.open /\ task = <<>>

HasStarEntry(extString) ==
    \E i \in DOMAIN Split(extString, COMMA) :
        TrimSpace(Split(extString, COMMA)[i]) = <<STAR>>

\* C7: when the extension string has a * entry, the filter set built at
\* startup is the wildcard and every change notification is accepted.
C7_StarIsWildcard ==
    (b.made /\ HasStarEntry(exts)) =>
        /\ IsWildcard(b.exts)
        /\ \A f \in ChangedFiles : Accepts(b.exts, f)

WarnEvents == SelectSeq(logs, LAMBDA e : e.Type = LogTypeWarn)
ErrorEvents == SelectSeq(logs, LAMBDA e : e.Type = LogTypeError /\ e.Message = "emptyExts")

\* Build has sent the event about the extensions
PastLogExts == pc \in {"logAppName", "paths", "initWatcher", "watch", "goBuild", "wait", "blocked"}

\* C8: with an empty extension set Build sends exactly one warning, after the
\* argument summary and before the output path, never an error for it, does
\* not return an error because of it, goes on to the path expansion and the
\* watcher, and the set stays empty.
C8_EmptyExtsWarnsOnly ==
    (b.made /\ getExts(exts) = <<>>) =>
        /\ b.exts = <<>> /\ ~IsWildcard(b.exts)
        /\ ErrorEvents = <<>>
        /\ err \in {NoErr, "walk", "watcher"}
        /\ pc = "logArgs" => logs = <<>>
        /\ pc = "logExts" => logs = <<Log(LogTypeInfo, "args")>>
        /\ pc = "logAppName" =>
              logs = <<Log(LogTypeInfo, "args"), Log(LogTypeWarn, "emptyExts")>>
        /\ (PastLogExts \/ pc = "returned") =>
              /\ Len(WarnEvents) = 1
              /\ logs[2] = Log(LogTypeWarn, "emptyExts")
        /\ (pc \in {"paths", "initWatcher", "watch", "goBuild", "wait", "blocked"}
              \/ pc = "returned") =>
              SubSeq(logs, 1, 3) = <<Log(LogTypeInfo, "args"), Log(LogTypeWarn, "emptyExts"),
                                     Log(LogTypeInfo, "appName")>>

\* Build watches with the empty set and has started the startup build
C8_Witness ==
    /\ b.made /\ b.exts = <<>>
    /\ w.watching /\ task # <<>>
    /\ Len(WarnEvents) = 1

====
